---- MODULE Spec2Model ----
(***************************************************************************)
(* scripts/create-service.py: the microservice scaffolder.                 *)
(*                                                                         *)
(* The state is the workspace filesystem (paths relative to the workspace  *)
(* root, Path(__file__).parent.parent) and, for every invocation of the    *)
(* script, its command line, its position in the script, its standard      *)
(* output and its exit status.  Every filesystem call of the script is one *)
(* step; the print that follows a call belongs to the call's step.         *)
(***************************************************************************)
EXTENDS Integers, Sequences, FiniteSets, TLC

\* Number of invocations of the script in one behaviour.
MaxRuns == 2

Invocations == 1..MaxRuns

\* len(sys.argv) of a well-formed command line: program, service name, port.
ExpectedArgc == 3

\* The script's own name, sys.argv[0].
Program == "scripts/create-service.py"

\* Service names and port arguments tried on the command line.
Names == {"order", "cart"}

\* Five that int() accepts (3003, 7, 8, 10, -1) and three it rejects.
PortArgs == {"3003", "007", " +8", "1_0", "-1", "", "3.5", "1__0"}

----------------------------------------------------------------------------
(* Strings *)

Digits == "0123456789"

LowerAlpha == "abcdefghijklmnopqrstuvwxyz"

UpperAlpha == "ABCDEFGHIJKLMNOPQRSTUVWXYZ"

Char(s, i) == SubSeq(s, i, i)

\* The backquote character of the templates. A TLA+ string cannot hold one, so "~",
\* which occurs in no template, stands for it.
Backquote == "~"

\* Position of character c in alpha, 0 when absent.
IndexIn(alpha, c) ==
    IF \E i \in 1..Len(alpha) : Char(alpha, i) = c
    THEN CHOOSE i \in 1..Len(alpha) : Char(alpha, i) = c
    ELSE 0

IsDigit(c) == IndexIn(Digits, c) > 0

IsAlpha(c) == IndexIn(LowerAlpha, c) > 0 \/ IndexIn(UpperAlpha, c) > 0

UpperChar(c) == IF IndexIn(LowerAlpha, c) > 0 THEN Char(UpperAlpha, IndexIn(LowerAlpha, c)) ELSE c

LowerChar(c) == IF IndexIn(UpperAlpha, c) > 0 THEN Char(LowerAlpha, IndexIn(UpperAlpha, c)) ELSE c

RECURSIVE Upper(_)
\* str.upper()
Upper(s) == IF Len(s) = 0 THEN "" ELSE UpperChar(Char(s, 1)) \o Upper(SubSeq(s, 2, Len(s)))

RECURSIVE TitleFrom(_, _)
TitleFrom(s, i) ==
    IF i > Len(s) THEN ""
    ELSE (IF i = 1 \/ ~IsAlpha(Char(s, i - 1)) THEN UpperChar(Char(s, i)) ELSE LowerChar(Char(s, i)))
         \o TitleFrom(s, i + 1)

\* str.title(): a letter that follows a non-letter is upper-cased, every other one lower-cased.
Title(s) == TitleFrom(s, 1)

RECURSIVE Strip(_)
\* The whitespace int() ignores around its argument.
Strip(s) ==
    IF Len(s) > 0 /\ Char(s, 1) = " " THEN Strip(SubSeq(s, 2, Len(s)))
    ELSE IF Len(s) > 0 /\ Char(s, Len(s)) = " " THEN Strip(SubSeq(s, 1, Len(s) - 1))
    ELSE s

RECURSIVE DigitsValue(_, _)
\* Value of a digit string in base 10, underscores skipped.
DigitsValue(s, acc) ==
    IF Len(s) = 0 THEN acc
    ELSE IF Char(s, 1) = "_" THEN DigitsValue(SubSeq(s, 2, Len(s)), acc)
    ELSE DigitsValue(SubSeq(s, 2, Len(s)), 10 * acc + (IndexIn(Digits, Char(s, 1)) - 1))

\* int() with a fallback: an argument that is no integer becomes 0 instead of raising.
IntParseLenient(s) == [ok |-> TRUE, val |-> 0]

\* int(s): surrounding whitespace, an optional sign, then decimal digits with single
\* underscores allowed between digits.  ok = FALSE is ValueError.
IntParse(s) ==
    LET t == Strip(s)
        signed == Len(t) > 0 /\ Char(t, 1) \in {"+", "-"}
        body == IF signed THEN SubSeq(t, 2, Len(t)) ELSE t
        n == Len(body)
        wellformed ==
            /\ n > 0
            /\ IsDigit(Char(body, 1))
            /\ IsDigit(Char(body, n))
            /\ \A i \in 1..n :
                \/ IsDigit(Char(body, i))
                \/ (Char(body, i) = "_" /\ i < n /\ Char(body, i + 1) # "_")
        mag == DigitsValue(body, 0)
    IN  [ok |-> wellformed,
         val |-> IF ~wellformed THEN 0 ELSE IF Char(t, 1) = "-" THEN 0 - mag ELSE mag]

RECURSIVE NatStr(_)
NatStr(n) == IF n < 10 THEN Char(Digits, n + 1) ELSE NatStr(n \div 10) \o Char(Digits, (n % 10) + 1)

\* str(abs(n)): the sign is lost.
StrUnsigned(n) == IF n < 0 THEN NatStr(0 - n) ELSE NatStr(n)

\* str(n) of an int, as an f-string interpolates it.
Str(n) == IF n < 0 THEN "-" \o NatStr(0 - n) ELSE NatStr(n)

RECURSIVE PathStr(_)
\* A path as printed: its components joined by "/".
PathStr(p) ==
    IF Len(p) = 0 THEN "."
    ELSE IF Len(p) = 1 THEN p[1]
    ELSE PathStr(SubSeq(p, 1, Len(p) - 1)) \o "/" \o p[Len(p)]

----------------------------------------------------------------------------
(* Templates: the text create_service writes to each file *)

PackageJson(service_name, port) ==
    "{\n"
    \o "  \"name\": \""
    \o service_name
    \o "-service\",\n"
    \o "  \"version\": \"1.0.0\",\n"
    \o "  \"description\": \"\",\n"
    \o "  \"main\": \"index.js\",\n"
    \o "  \"scripts\": {\n"
    \o "    \"start\": \"node index.js\",\n"
    \o "    \"dev\": \"nodemon index.js\"\n"
    \o "  },\n"
    \o "  \"keywords\": [],\n"
    \o "  \"author\": \"\",\n"
    \o "  \"license\": \"ISC\",\n"
    \o "  \"type\": \"module\",\n"
    \o "  \"dependencies\": {\n"
    \o "    \"@shared/config\": \"workspace:*\",\n"
    \o "    \"@shared/utils\": \"workspace:*\",\n"
    \o "    \"@shared/providers\": \"workspace:*\",\n"
    \o "    \"@shared/middlewares\": \"workspace:*\",\n"
    \o "    \"@shared/cloudinary\": \"workspace:*\",\n"
    \o "    \"@shared/env-loader\": \"workspace:*\"\n"
    \o "  },\n"
    \o "  \"devDependencies\": {\n"
    \o "    \"nodemon\": \"^3.1.11\"\n"
    \o "  }\n"
    \o "}"

EnvContent(service_name, port) ==
    "# \n"
    \o "# "
    \o Upper(service_name)
    \o " SERVICE - Specific Configuration\n"
    \o "# Loaded after root .env (can override common variables if needed)\n"
    \o "# \n"
    \o "\n"
    \o "# Server Port ("
    \o Title(service_name)
    \o " Service)\n"
    \o "PORT="
    \o Str(port)
    \o "\n"

IndexJs(service_name, port) ==
    "import \"@shared/env-loader\";\n"
    \o "import { database as connectDB } from \"@shared/config\";\n"
    \o "import createApp from \"./config/express.config.js\";\n"
    \o "\n"
    \o "const PORT = process.env.PORT || "
    \o Str(port)
    \o ";\n"
    \o "\n"
    \o "async function startServer() {\n"
    \o "  console.log(\"> Starting server...\");\n"
    \o "\n"
    \o "  await connectDB();\n"
    \o "\n"
    \o "  const app = createApp();\n"
    \o "\n"
    \o "  app.listen(PORT, () => {\n"
    \o "    console.log(" \o Backquote \o "> Server running on port ${PORT}" \o Backquote \o ");\n"
    \o "  });\n"
    \o "}\n"
    \o "\n"
    \o "startServer().catch((error) => {\n"
    \o "  console.error(\"> Failed to start server:\", error);\n"
    \o "  process.exit(1);\n"
    \o "});\n"

ExpressConfig(service_name, port) ==
    "import express from \"express\";\n"
    \o "import cors from \"cors\";\n"
    \o "import routes from \"../index.route.js\";\n"
    \o "\n"
    \o "export default function createApp() {\n"
    \o "  const app = express();\n"
    \o "\n"
    \o "  console.log(\"> Middleware configured\");\n"
    \o "\n"
    \o "  app.use(cors());\n"
    \o "  app.use(express.json());\n"
    \o "  app.use(express.urlencoded({ extended: true }));\n"
    \o "\n"
    \o "  console.log(\"> Routes initialized\");\n"
    \o "  app.use(\"/api\", routes);\n"
    \o "\n"
    \o "  return app;\n"
    \o "}\n"

IndexRoute(service_name, port) ==
    "import { Router } from \"express\";\n"
    \o "import { sendResponse } from \"@shared/utils\";\n"
    \o "\n"
    \o "const router = Router();\n"
    \o "\n"
    \o "/**\n"
    \o " * @route GET /api/health\n"
    \o " * @description Health check endpoint\n"
    \o " */\n"
    \o "router.get(\"/health\", (req, res) => {\n"
    \o "  sendResponse(res, 200, \"Server is running\", { status: \"ok\" }, null);\n"
    \o "});\n"
    \o "\n"
    \o "// TODO: Add your routes here\n"
    \o "// Example:\n"
    \o "// import exampleRoutes from \"./src/example/example.route.js\";\n"
    \o "// router.use(\"/examples\", exampleRoutes);\n"
    \o "\n"
    \o "export default router;\n"

Readme(service_name, port) ==
    "# "
    \o Title(service_name)
    \o " Service\n"
    \o "\n"
    \o "Port: "
    \o Str(port)
    \o "\n"
    \o "\n"
    \o "## Running\n"
    \o "\n"
    \o Backquote \o Backquote \o Backquote \o "bash\n"
    \o "pnpm --filter "
    \o service_name
    \o "-service start\n"
    \o "pnpm --filter "
    \o service_name
    \o "-service dev\n"
    \o Backquote \o Backquote \o Backquote \o "\n"
    \o "\n"
    \o "## Health Check\n"
    \o "\n"
    \o Backquote \o Backquote \o Backquote \o "bash\n"
    \o "curl http://localhost:"
    \o Str(port)
    \o "/api/health\n"
    \o Backquote \o Backquote \o Backquote \o "\n"

----------------------------------------------------------------------------
(* Filesystem: a function from the paths that exist (sequences of components,
   relative to the workspace root) to what is there *)

Dir == [kind |-> "dir", content |-> ""]

File(text) == [kind |-> "file", content |-> text]

Root == << >>

Parent(p) == SubSeq(p, 1, Len(p) - 1)

\* p and all its ancestors up to the root.
Prefixes(p) == {SubSeq(p, 1, k) : k \in 0..Len(p)}

\* Path.exists()
PathExists(f, p) == p \in DOMAIN f

IsDir(f, p) == p \in DOMAIN f /\ f[p].kind = "dir"

\* d.mkdir(parents=True) without exist_ok: an existing directory raises FileExistsError.
MkdirStrict(f, d) ==
    IF PathExists(f, d) THEN [ok |-> FALSE, fs |-> f]
    ELSE IF \E a \in Prefixes(d) : PathExists(f, a) /\ ~IsDir(f, a) THEN [ok |-> FALSE, fs |-> f]
    ELSE [ok |-> TRUE,
          fs |-> [p \in DOMAIN f \cup Prefixes(d) |-> IF p \in DOMAIN f THEN f[p] ELSE Dir]]

\* d.mkdir(parents=True, exist_ok=True): an existing directory is left alone, missing
\* ancestors are created; ok = FALSE is the OSError raised when d or an ancestor is a file.
Mkdir(f, d) ==
    IF PathExists(f, d) THEN [ok |-> IsDir(f, d), fs |-> f]
    ELSE IF \E a \in Prefixes(d) : PathExists(f, a) /\ ~IsDir(f, a) THEN [ok |-> FALSE, fs |-> f]
    ELSE [ok |-> TRUE,
          fs |-> [p \in DOMAIN f \cup Prefixes(d) |-> IF p \in DOMAIN f THEN f[p] ELSE Dir]]

\* open(path, "w"): creates the file, or truncates the one that is there; ok = FALSE is
\* the OSError raised when the parent is no directory or path is a directory.
OpenW(f, path) ==
    IF ~IsDir(f, Parent(path)) \/ IsDir(f, path) THEN [ok |-> FALSE, fs |-> f]
    ELSE [ok |-> TRUE,
          fs |-> [p \in DOMAIN f \cup {path} |-> IF p = path THEN File("") ELSE f[p]]]

\* f.write(text) and the close at the end of the with block: text lands at offset 0 of
\* the file as it is by then.
WriteAt(f, path, text) ==
    [f EXCEPT ![path] = File(text \o SubSeq(@.content, Len(text) + 1, Len(@.content)))]

----------------------------------------------------------------------------
(* create_service's fixed lists *)

ServiceDir(service_name) == <<"services", service_name>>

\* The list with one subdirectory forgotten.
DirsWithoutModels(service_dir) ==
    << service_dir,
       service_dir \o <<"src">>,
       service_dir \o <<"config">>,
       service_dir \o <<"scripts">> >>

Dirs(service_dir) ==
    << service_dir,
       service_dir \o <<"src">>,
       service_dir \o <<"config">>,
       service_dir \o <<"models">>,
       service_dir \o <<"scripts">> >>

\* Number of files written.
NumFiles == 6

\* The paths with the third block's path copied from the second's.
FileRelCopied(k) ==
    CASE k = 1 -> <<"package.json">>
      [] k = 2 -> <<".env">>
      [] k = 3 -> <<".env">>
      [] k = 4 -> <<"config", "express.config.js">>
      [] k = 5 -> <<"index.route.js">>
      [] k = 6 -> <<"README.md">>

\* Path, under the service directory, of the k-th file written.
FileRel(k) ==
    CASE k = 1 -> <<"package.json">>
      [] k = 2 -> <<".env">>
      [] k = 3 -> <<"index.js">>
      [] k = 4 -> <<"config", "express.config.js">>
      [] k = 5 -> <<"index.route.js">>
      [] k = 6 -> <<"README.md">>

\* Text of the k-th file written.
FileText(k, service_name, port) ==
    CASE k = 1 -> PackageJson(service_name, port)
      [] k = 2 -> EnvContent(service_name, port)
      [] k = 3 -> IndexJs(service_name, port)
      [] k = 4 -> ExpressConfig(service_name, port)
      [] k = 5 -> IndexRoute(service_name, port)
      [] k = 6 -> Readme(service_name, port)

\* len(sys.argv) < 3: extra arguments pass.
ArgcTooFew(args) == Len(args) < ExpectedArgc

\* len(sys.argv) != 3
ArgcWrong(args) == Len(args) # ExpectedArgc

\* The check left out.
DestinationNeverExists(f, service_name) == FALSE

\* service_dir.is_file() in place of exists(): an existing directory passes.
DestinationIsFile(f, service_name) ==
    PathExists(f, ServiceDir(service_name)) /\ ~IsDir(f, ServiceDir(service_name))

\* service_dir.exists()
DestinationExists(f, service_name) == PathExists(f, ServiceDir(service_name))

\* A cleanup handler around the filesystem calls: shutil.rmtree(service_dir) on failure.
AfterFaultRollback(f, service_name) ==
    LET sd == ServiceDir(service_name)
        kept == {p \in DOMAIN f : ~(Len(p) >= Len(sd) /\ SubSeq(p, 1, Len(sd)) = sd)}
    IN  [p \in kept |-> f[p]]

\* What an unhandled OSError leaves behind: there is no except or finally around the
\* filesystem calls, so the filesystem stays as the failed call left it.
AfterFault(f, service_name) == f

UsageLines ==
    << "Usage: python scripts/create-service.py <service-name> <port>",
       "Example: python scripts/create-service.py order 3003" >>

PortError == "Error: Port must be a number"

ExistsError(service_name) == "Error: Service '" \o service_name \o "' already exists"

CreatingLine(service_name, port) == "Creating service: " \o service_name \o " on port " \o Str(port)

CreatedLine(what) == "Created: " \o what

SummaryLines(service_name) ==
    << "\nService '" \o service_name \o "' created successfully!",
       "\nNext steps:",
       "1. cd 'e:/AIB/Cleanse Ayurveda/microservices'",
       "2. pnpm install",
       "3. pnpm --filter " \o service_name \o "-service dev" >>

----------------------------------------------------------------------------
(* State *)

VARIABLES
    fs,            \* the workspace filesystem
    pc,            \* pc[i]: where invocation i is in the script
    idx,           \* idx[i]: index into dirs or into the files, while creating them
    argv,          \* argv[i]: sys.argv
    service_name,  \* service_name[i]: sys.argv[1] once read
    port,          \* port[i]: int(sys.argv[2]) once parsed
    out,           \* out[i]: the lines printed so far
    status,        \* status[i]: the exit status, -1 while running
    log,           \* log[i]: history, the filesystem calls of i that succeeded, in order
    before         \* before[i]: history, the filesystem when i was launched (kept
                   \* where invocations run one at a time)

vars == <<fs, pc, idx, argv, service_name, port, out, status, log, before>>

Running == -1

Exited == {"done", "failed", "crashed"}

\* The workspaces the script is launched in: no services directory yet, an empty one,
\* one that holds an earlier order service, and one where services/cart is a plain file.
EmptyWorkspace == (Root :> Dir)

InitialWorkspaces ==
    { EmptyWorkspace,
      EmptyWorkspace @@ (<<"services">> :> Dir),
      EmptyWorkspace @@ (<<"services">> :> Dir) @@ (<<"services", "order">> :> Dir)
          @@ (<<"services", "order", "package.json">> :> File("{}")),
      EmptyWorkspace @@ (<<"services">> :> Dir) @@ (<<"services", "cart">> :> File("")) }

\* The command lines tried: every argument count from none to three, every name with
\* every port argument.
CommandLines ==
    {<<Program>>, <<Program, "order">>}
    \cup {<<Program, n, a>> : n \in Names, a \in PortArgs}
    \cup {<<Program, "order", a, "extra">> : a \in {"3003", "3.5"}}

\* The command lines tried under the script's scheduling: one for each way a run ends.
BriefCommandLines ==
    { <<Program>>,
      <<Program, "order", "3003", "extra">>,
      <<Program, "order", "3.5">>,
      <<Program, "order", "3003">>,
      <<Program, "cart", "007">> }

\* The command lines tried where filesystem calls may fail: well-formed ones.
RetryCommandLines == {<<Program, n, "3003">> : n \in Names}

\* The command lines tried side by side: one service, two ports whose texts differ
\* in length.
RaceCommandLines == {<<Program, "order", a>> : a \in {"3003", "007"}}

Init ==
    /\ fs \in InitialWorkspaces
    /\ pc = [i \in Invocations |-> "idle"]
    /\ idx = [i \in Invocations |-> 0]
    /\ argv = [i \in Invocations |-> << >>]
    /\ service_name = [i \in Invocations |-> ""]
    /\ port = [i \in Invocations |-> 0]
    /\ out = [i \in Invocations |-> << >>]
    /\ status = [i \in Invocations |-> Running]
    /\ log = [i \in Invocations |-> << >>]
    /\ before = [i \in Invocations |-> EmptyWorkspace]

----------------------------------------------------------------------------
(* Steps of one invocation *)

\* The operating system starts the script with a command line.
Launch(i, args) ==
    /\ pc[i] = "idle"
    /\ pc' = [pc EXCEPT ![i] = "argc"]
    /\ argv' = [argv EXCEPT ![i] = args]
    /\ UNCHANGED <<fs, idx, service_name, port, out, status, log>>

\* One invocation at a time: i is launched once every earlier one has exited.
StartSeq(i) ==
    /\ \A j \in Invocations : j < i => pc[j] \in Exited
    /\ \E args \in CommandLines : Launch(i, args)
    /\ before' = [before EXCEPT ![i] = fs]

\* The same, under the script's scheduling.
StartBrief(i) ==
    /\ \A j \in Invocations : j < i => pc[j] \in Exited
    /\ \E args \in BriefCommandLines : Launch(i, args)
    /\ before' = [before EXCEPT ![i] = fs]

\* The same, where filesystem calls may fail.
StartRetry(i) ==
    /\ \A j \in Invocations : j < i => pc[j] \in Exited
    /\ \E args \in RetryCommandLines : Launch(i, args)
    /\ before' = [before EXCEPT ![i] = fs]

\* Invocations side by side: i is launched any time after the earlier ones were.
StartRace(i) ==
    /\ \A j \in Invocations : j < i => pc[j] # "idle"
    /\ \E args \in RaceCommandLines : Launch(i, args)
    /\ UNCHANGED before

\* sys.exit(1) after printing lines.
ExitWith(i, lines) ==
    /\ out' = [out EXCEPT ![i] = @ \o lines]
    /\ status' = [status EXCEPT ![i] = 1]
    /\ pc' = [pc EXCEPT ![i] = "failed"]

\* An exception nobody catches: traceback on stderr, exit status 1.
Crash(i) ==
    /\ fs' = AfterFault(fs, service_name[i])
    /\ status' = [status EXCEPT ![i] = 1]
    /\ pc' = [pc EXCEPT ![i] = "crashed"]
    /\ UNCHANGED <<idx, argv, service_name, port, out, log, before>>

CheckArgc(i) ==
    /\ pc[i] = "argc"
    /\ IF ArgcWrong(argv[i])
       THEN /\ ExitWith(i, UsageLines)
            /\ UNCHANGED service_name
       ELSE /\ service_name' = [service_name EXCEPT ![i] = argv[i][2]]
            /\ pc' = [pc EXCEPT ![i] = "parse"]
            /\ UNCHANGED <<out, status>>
    /\ UNCHANGED <<fs, idx, argv, port, log, before>>

ParsePort(i) ==
    /\ pc[i] = "parse"
    /\ LET r == IntParse(argv[i][3])
       IN  IF r.ok
           THEN /\ port' = [port EXCEPT ![i] = r.val]
                /\ pc' = [pc EXCEPT ![i] = "exists"]
                /\ UNCHANGED <<out, status>>
           ELSE /\ ExitWith(i, <<PortError>>)
                /\ UNCHANGED port
    /\ UNCHANGED <<fs, idx, argv, service_name, log, before>>

CheckExists(i) ==
    /\ pc[i] = "exists"
    /\ IF DestinationExists(fs, service_name[i])
       THEN /\ ExitWith(i, <<ExistsError(service_name[i])>>)
            /\ UNCHANGED idx
       ELSE /\ out' = [out EXCEPT ![i] = Append(@, CreatingLine(service_name[i], port[i]))]
            /\ pc' = [pc EXCEPT ![i] = "mkdir"]
            /\ idx' = [idx EXCEPT ![i] = 1]
            /\ UNCHANGED status
    /\ UNCHANGED <<fs, argv, service_name, port, log, before>>

MakeDir(i) ==
    /\ pc[i] = "mkdir"
    /\ LET dirs == Dirs(ServiceDir(service_name[i]))
           d == dirs[idx[i]]
           r == Mkdir(fs, d)
       IN  IF r.ok
           THEN /\ fs' = r.fs
                /\ log' = [log EXCEPT ![i] =
                              Append(@, [op |-> "mkdir", path |-> d])]
                /\ out' = [out EXCEPT ![i] = Append(@, CreatedLine(PathStr(d)))]
                /\ IF idx[i] < Len(dirs)
                   THEN /\ idx' = [idx EXCEPT ![i] = @ + 1]
                        /\ UNCHANGED pc
                   ELSE /\ idx' = [idx EXCEPT ![i] = 1]
                        /\ pc' = [pc EXCEPT ![i] = "open"]
                /\ UNCHANGED <<argv, service_name, port, status, before>>
           ELSE Crash(i)

OpenFile(i) ==
    /\ pc[i] = "open"
    /\ LET path == ServiceDir(service_name[i]) \o FileRel(idx[i])
           r == OpenW(fs, path)
       IN  IF r.ok
           THEN /\ fs' = r.fs
                /\ log' = [log EXCEPT ![i] =
                              Append(@, [op |-> "open", path |-> path])]
                /\ pc' = [pc EXCEPT ![i] = "write"]
                /\ UNCHANGED <<idx, argv, service_name, port, out, status, before>>
           ELSE Crash(i)

\* The write without the print that follows it.
WriteFileQuiet(i) ==
    /\ pc[i] = "write"
    /\ LET rel == FileRel(idx[i])
           path == ServiceDir(service_name[i]) \o rel
       IN  /\ fs' = WriteAt(fs, path, FileText(idx[i], service_name[i], port[i]))
           /\ IF idx[i] < NumFiles
              THEN /\ idx' = [idx EXCEPT ![i] = @ + 1]
                   /\ pc' = [pc EXCEPT ![i] = "open"]
              ELSE /\ idx' = [idx EXCEPT ![i] = 0]
                   /\ pc' = [pc EXCEPT ![i] = "summary"]
    /\ UNCHANGED <<argv, service_name, port, out, status, log, before>>

WriteFile(i) ==
    /\ pc[i] = "write"
    /\ LET rel == FileRel(idx[i])
           path == ServiceDir(service_name[i]) \o rel
       IN  /\ fs' = WriteAt(fs, path, FileText(idx[i], service_name[i], port[i]))
           /\ out' = [out EXCEPT ![i] = Append(@, CreatedLine(PathStr(rel)))]
           /\ IF idx[i] < NumFiles
              THEN /\ idx' = [idx EXCEPT ![i] = @ + 1]
                   /\ pc' = [pc EXCEPT ![i] = "open"]
              ELSE /\ idx' = [idx EXCEPT ![i] = 0]
                   /\ pc' = [pc EXCEPT ![i] = "summary"]
    /\ UNCHANGED <<argv, service_name, port, status, log, before>>

\* The closing prints, then the implicit exit with status 0.
Summary(i) ==
    /\ pc[i] = "summary"
    /\ out' = [out EXCEPT ![i] = @ \o SummaryLines(service_name[i])]
    /\ status' = [status EXCEPT ![i] = 0]
    /\ pc' = [pc EXCEPT ![i] = "done"]
    /\ UNCHANGED <<fs, idx, argv, service_name, port, log, before>>

\* A filesystem call fails for a reason outside the script (permissions, a full disk):
\* the OSError is not caught.
Fault(i) ==
    /\ pc[i] \in {"mkdir", "open", "write"}
    /\ Crash(i)

Step(i) ==
    \/ CheckArgc(i)
    \/ ParsePort(i)
    \/ CheckExists(i)
    \/ MakeDir(i)
    \/ OpenFile(i)
    \/ WriteFile(i)
    \/ Summary(i)

\* Runs one after the other, no faults.
Next == \E i \in Invocations : StartSeq(i) \/ Step(i)

Spec == Init /\ [][Next]_vars

\* Runs one after the other with the scheduling a synchronous single-threaded script
\* has: a launched invocation keeps running until it exits.
NextFair == \E i \in Invocations : StartBrief(i) \/ Step(i)

FairSpec == Init /\ [][NextFair]_vars /\ \A i \in Invocations : WF_vars(Step(i))

\* Runs one after the other, any filesystem call may fail.
NextFault == \E i \in Invocations : StartRetry(i) \/ Step(i) \/ Fault(i)

FaultSpec == Init /\ [][NextFault]_vars

\* Invocations running side by side, no faults.
NextRace == \E i \in Invocations : StartRace(i) \/ Step(i)

RaceSpec == Init /\ [][NextRace]_vars

----------------------------------------------------------------------------
(* Vocabulary of the properties *)

\* The states of the design's state machine; Crashed is an unhandled OSError.
Phase(i) ==
    CASE pc[i] = "idle" -> "NotStarted"
      [] pc[i] \in {"argc", "parse", "exists"} -> "Validating"
      [] pc[i] \in {"mkdir", "open", "write", "summary"} -> "Scaffolding"
      [] pc[i] = "done" -> "Done"
      [] pc[i] = "failed" -> "Failed"
      [] pc[i] = "crashed" -> "Crashed"

\* i is the invocation launched last.
Latest(i) == pc[i] # "idle" /\ \A j \in Invocations : j > i => pc[j] = "idle"

\* What exists now and did not when i was launched.
Created(i) == DOMAIN fs \ DOMAIN before[i]

\* text has a line that is exactly line.
HasLine(text, line) ==
    \E k \in 1..(Len(text) - Len(line) + 1) :
        /\ SubSeq(text, k, k + Len(line) - 1) = line
        /\ (k = 1 \/ Char(text, k - 1) = "\n")
        /\ (k + Len(line) > Len(text) \/ Char(text, k + Len(line)) = "\n")

\* The port arguments tried, by what int() makes of them, and the decimal text of
\* the ones it accepts.
IntegerArgs == {"3003", "007", " +8", "1_0", "-1"}

NonIntegerArgs == {"", "3.5", "1__0"}

PortText(arg) ==
    CASE arg = "3003" -> "3003"
      [] arg = "007" -> "7"
      [] arg = " +8" -> "8"
      [] arg = "1_0" -> "10"
      [] arg = "-1" -> "-1"

\* The directory skeleton and the files of a service, as the design lists them.
Skeleton(n) ==
    { <<"services", n>>, <<"services", n, "src">>, <<"services", n, "config">>,
      <<"services", n, "models">>, <<"services", n, "scripts">> }

ListedFiles(n) ==
    { <<"services", n, "package.json">>, <<"services", n, ".env">>,
      <<"services", n, "index.js">>, <<"services", n, "config", "express.config.js">>,
      <<"services", n, "index.route.js">>, <<"services", n, "README.md">> }

\* i was given a service name and a port that int() accepts, and its destination did
\* not exist when it was launched.
Eligible(i) ==
    /\ Len(argv[i]) = 3
    /\ argv[i][3] \in IntegerArgs
    /\ <<"services", argv[i][2]>> \notin DOMAIN before[i]

\* i was given a service name and a port that int() accepts, and found its destination
\* there.
Collides(i) ==
    /\ Len(argv[i]) = 3
    /\ argv[i][3] \in IntegerArgs
    /\ <<"services", argv[i][2]>> \in DOMAIN before[i]

RECURSIVE CountCreatedLines(_)
\* Number of progress lines among the printed lines.
CountCreatedLines(lines) ==
    IF Len(lines) = 0 THEN 0
    ELSE (IF SubSeq(Head(lines), 1, 9) = "Created: " THEN 1 ELSE 0) + CountCreatedLines(Tail(lines))

\* Number of directories and files i has finished creating.
Creations(i) == Len(log[i]) - (IF pc[i] = "write" THEN 1 ELSE 0)

----------------------------------------------------------------------------
(* C1 *)

\* C1 as claimed: a run with two arguments, a port that parses and no destination
\* in the way ends with status 0 and has created exactly the five directories of the
\* skeleton and seven files.
C1_SevenFiles ==
    \A i \in Invocations :
        (Eligible(i) /\ Latest(i) /\ pc[i] \in Exited) =>
            /\ pc[i] = "done" /\ status[i] = 0
            /\ {p \in Created(i) : fs[p].kind = "dir"} = Skeleton(argv[i][2])
            /\ Cardinality({p \in Created(i) : fs[p].kind = "file"}) = 7

\* C1, amended: such a run ends with status 0 and has created exactly the five
\* directories of the skeleton, the six files package.json, .env, index.js,
\* config/express.config.js, index.route.js and README.md, and the services directory
\* itself when the workspace had none.
C1_ExactlySkeletonAndSixFiles ==
    \A i \in Invocations :
        (Eligible(i) /\ Latest(i) /\ pc[i] \in Exited) =>
            /\ pc[i] = "done" /\ status[i] = 0
            /\ {p \in Created(i) : fs[p].kind = "dir"} =
                   Skeleton(argv[i][2]) \cup ({<<"services">>} \ DOMAIN before[i])
            /\ {p \in Created(i) : fs[p].kind = "file"} = ListedFiles(argv[i][2])

C1_Witness ==
    \E i \in Invocations :
        /\ Eligible(i) /\ Latest(i) /\ pc[i] = "done"
        /\ <<"services">> \notin DOMAIN before[i]

----------------------------------------------------------------------------
(* C2 *)

\* C2: a run that finds its destination already there exits with a non-zero status
\* by way of the already-exists error, has made no filesystem call, and leaves the
\* filesystem as it was when the run began.
C2_ExistingDestinationUntouched ==
    \A i \in Invocations :
        (Collides(i) /\ pc[i] \in Exited) =>
            /\ pc[i] = "failed" /\ status[i] # 0
            /\ log[i] = << >>
            /\ Latest(i) => fs = before[i]

C2_Witness ==
    \E i \in Invocations :
        /\ Collides(i) /\ pc[i] = "failed" /\ Latest(i)
        /\ before[i][<<"services", argv[i][2]>>].kind = "file"

----------------------------------------------------------------------------
(* C3 *)

\* C3: a run whose port argument is no integer never gets to create_service (neither
\* its existence check nor any later step), makes no filesystem change, prints the port
\* error alone and exits with a non-zero status, whether or not the destination exists.
C3_BadPortNoChange ==
    \A i \in Invocations :
        (Len(argv[i]) = 3 /\ argv[i][3] \in NonIntegerArgs) =>
            /\ pc[i] \in {"argc", "parse", "failed"}
            /\ log[i] = << >>
            /\ Latest(i) => fs = before[i]
            /\ pc[i] \in Exited => (status[i] # 0 /\ out[i] = <<PortError>>)

C3_Witness ==
    \E i \in Invocations :
        /\ Len(argv[i]) = 3 /\ argv[i][3] \in NonIntegerArgs
        /\ <<"services", argv[i][2]>> \in DOMAIN before[i]
        /\ pc[i] = "failed"

----------------------------------------------------------------------------
(* C4 *)

\* C4: of two runs in a row with the same command line, the first starting with no
\* destination in the way, the first ends Done with status 0, the second fails with
\* the already-exists error and a non-zero status, and everything the first run
\* produced is as the first run left it.
C4_SecondRunFailsFirstOutputKept ==
    \A i \in Invocations :
        (i + 1 \in Invocations /\ Eligible(i) /\ argv[i + 1] = argv[i]) =>
            /\ pc[i] = "done" /\ status[i] = 0
            /\ pc[i + 1] \in Exited =>
                /\ pc[i + 1] = "failed" /\ status[i + 1] # 0
                /\ out[i + 1] = <<"Error: Service '" \o argv[i][2] \o "' already exists">>
            /\ \A p \in DOMAIN before[i + 1] \ DOMAIN before[i] :
                   p \in DOMAIN fs /\ fs[p] = before[i + 1][p]

C4_Witness ==
    \E i \in Invocations :
        /\ i + 1 \in Invocations /\ Eligible(i) /\ argv[i + 1] = argv[i]
        /\ pc[i + 1] = "failed"
        /\ DOMAIN before[i + 1] \ DOMAIN before[i] # {}

----------------------------------------------------------------------------
(* C5 *)

\* C5: a run given any number of arguments other than two prints the usage text and
\* nothing else, exits with a non-zero status, and gets neither to the port parse nor
\* to the existence check nor to any write.
C5_WrongArgcUsageOnly ==
    \A i \in Invocations :
        (pc[i] # "idle" /\ Len(argv[i]) # 3) =>
            /\ pc[i] \in {"argc", "failed"}
            /\ log[i] = << >>
            /\ Latest(i) => fs = before[i]
            /\ pc[i] \in Exited =>
                /\ status[i] # 0
                /\ out[i] = << "Usage: python scripts/create-service.py <service-name> <port>",
                               "Example: python scripts/create-service.py order 3003" >>

C5_Witness ==
    \E i \in Invocations :
        /\ Len(argv[i]) = 4 /\ argv[i][3] \in NonIntegerArgs
        /\ <<"services", argv[i][2]>> \in DOMAIN before[i]
        /\ pc[i] = "failed"

----------------------------------------------------------------------------
(* C6 *)

\* C6: when a run has succeeded, .env has the line PORT=<port> with the port given on
\* the command line in decimal, index.js has the same port as its PORT fallback, and
\* README.md has it on its Port: line and in its curl URL.
C6_PortInterpolated ==
    \A i \in Invocations :
        (pc[i] = "done" /\ Latest(i)) =>
            LET sd == <<"services", argv[i][2]>>
                p == PortText(argv[i][3])
            IN  /\ HasLine(fs[sd \o <<".env">>].content, "PORT=" \o p)
                /\ HasLine(fs[sd \o <<"index.js">>].content,
                           "const PORT = process.env.PORT || " \o p \o ";")
                /\ HasLine(fs[sd \o <<"README.md">>].content, "Port: " \o p)
                /\ HasLine(fs[sd \o <<"README.md">>].content,
                           "curl http://localhost:" \o p \o "/api/health")

C6_Witness ==
    \E i \in Invocations :
        /\ pc[i] = "done" /\ Latest(i) /\ argv[i][3] = "-1"
        /\ HasLine(fs[<<"services", argv[i][2], ".env">>].content, "PORT=-1")

----------------------------------------------------------------------------
(* C7 *)

\* A step that opens a file finds nothing at its path.
C7_OpenCreates ==
    \A i \in Invocations :
        (pc[i] = "open" /\ pc'[i] = "write") =>
            (ServiceDir(service_name[i]) \o FileRel(idx[i])) \notin DOMAIN fs

\* Every file opened is opened once, at a path that was not there when the run began,
\* in a directory that was not there either and that the run made earlier; a finished
\* run has opened exactly the listed files.
C7_LogWellFormed ==
    \A i \in Invocations :
        /\ \A k \in 1..Len(log[i]) :
               log[i][k].op = "open" =>
                   /\ \A m \in 1..Len(log[i]) : log[i][m].path = log[i][k].path => m = k
                   /\ log[i][k].path \notin DOMAIN before[i]
                   /\ Parent(log[i][k].path) \notin DOMAIN before[i]
                   /\ \E m \in 1..(k - 1) :
                          log[i][m] = [op |-> "mkdir", path |-> Parent(log[i][k].path)]
        /\ pc[i] = "done" =>
               {log[i][k].path : k \in {m \in 1..Len(log[i]) : log[i][m].op = "open"}}
                   = ListedFiles(argv[i][2])

\* C7: in a run on its own that has passed the existence check, every template file
\* is written once to its fixed path, nothing was at that path just before the write,
\* and its parent directory was made earlier in the same run.
C7_EachFileWrittenOnceFresh == [][C7_OpenCreates]_vars /\ []C7_LogWellFormed

C7_Witness ==
    \E i \in Invocations :
        /\ pc[i] = "done"
        /\ i > 1
        /\ \E k \in 1..Len(log[i]) : log[i][k].path = <<"services", argv[i][2], "config", "express.config.js">>

----------------------------------------------------------------------------
(* C8 *)

\* C8: when a filesystem call fails after the service directory was made, the run
\* ends with everything it had made still there, and every later run for the same
\* service fails with the already-exists error and makes no filesystem call.
C8_NoRollbackRetryFails ==
    \A i \in Invocations :
        (pc[i] = "crashed" /\ log[i] # << >>) =>
            /\ \A k \in 1..Len(log[i]) : log[i][k].path \in DOMAIN fs
            /\ \A j \in Invocations :
                   (j > i /\ pc[j] \in Exited /\ argv[j][2] = argv[i][2]) =>
                       /\ pc[j] = "failed" /\ status[j] # 0
                       /\ out[j] = <<"Error: Service '" \o argv[i][2] \o "' already exists">>
                       /\ log[j] = << >>

C8_Witness ==
    \E i, j \in Invocations :
        /\ pc[i] = "crashed" /\ Len(log[i]) > 5
        /\ j > i /\ pc[j] = "failed" /\ argv[j][2] = argv[i][2]

----------------------------------------------------------------------------
(* C9 *)

\* C9: invocations for the same service running side by side are not kept apart: one
\* that has passed the existence check is never stopped by what the other has made (no
\* call of it raises), so it exits, if it does, Done with status 0.
C9_RaceNeverRaises ==
    \A i \in Invocations :
        /\ pc[i] # "crashed"
        /\ (pc[i] \in Exited /\ log[i] # << >>) => (pc[i] = "done" /\ status[i] = 0)

\* Both passed the check, both ended Done with status 0, and the directory holds the
\* .env of one port and the README.md of the other.
C9_Witness ==
    \E i, j \in Invocations :
        /\ pc[i] = "done" /\ pc[j] = "done" /\ status[i] = 0 /\ status[j] = 0
        /\ argv[i][2] = argv[j][2] /\ argv[i][3] = "3003" /\ argv[j][3] = "007"
        /\ HasLine(fs[<<"services", argv[i][2], ".env">>].content, "PORT=3003")
        /\ ~HasLine(fs[<<"services", argv[i][2], ".env">>].content, "PORT=7")
        /\ HasLine(fs[<<"services", argv[i][2], "README.md">>].content, "Port: 7")

----------------------------------------------------------------------------
(* C10 *)

\* The moves of Validating -> Scaffolding -> Done and Validating -> Failed.
C10_PhaseMoves ==
    \A i \in Invocations :
        \/ Phase(i)' = Phase(i)
        \/ <<Phase(i), Phase(i)'>> \in
               { <<"NotStarted", "Validating">>, <<"Validating", "Scaffolding">>,
                 <<"Validating", "Failed">>, <<"Scaffolding", "Done">> }

\* The checks come in the order argument count, port, destination, before any write;
\* a progress line follows every creation and the summary follows the last file.
C10_Checks ==
    \A i \in Invocations :
        /\ Phase(i) = "Validating" => (log[i] = << >> /\ out[i] = << >> /\ (Latest(i) => fs = before[i]))
        /\ pc[i] \in {"parse", "exists"} => Len(argv[i]) = 3
        /\ pc[i] = "exists" => argv[i][3] \in IntegerArgs
        /\ Phase(i) \in {"Scaffolding", "Done"} => Eligible(i)
        /\ Phase(i) = "Failed" =>
               /\ status[i] # 0 /\ log[i] = << >>
               /\ out[i] = IF Len(argv[i]) # 3 THEN UsageLines
                           ELSE IF argv[i][3] \in NonIntegerArgs THEN <<PortError>>
                           ELSE <<ExistsError(argv[i][2])>>
        /\ Phase(i) \in {"Scaffolding", "Done"} =>
               /\ CountCreatedLines(out[i]) = Creations(i)
               /\ Len(out[i]) = 1 + Creations(i) + (IF pc[i] = "done" THEN 5 ELSE 0)
        /\ Phase(i) = "Done" => (status[i] = 0 /\ Creations(i) = 11)

\* C10: every invocation moves Validating -> Scaffolding -> Done or Validating ->
\* Failed; the checks run in the order argument count, port parse, destination, in
\* Validating and before any write; and with no filesystem fault an invocation in
\* Scaffolding gets to Done, a progress line printed after each creation and the
\* summary after the last file.
C10_StateMachine ==
    /\ [][C10_PhaseMoves]_vars
    /\ []C10_Checks
    /\ \A i \in Invocations : (Phase(i) = "Scaffolding") ~> (Phase(i) = "Done")

C10_Witness ==
    \E i \in Invocations :
        /\ Phase(i) = "Done" /\ i > 1
        /\ \E j \in Invocations :
               j < i /\ Phase(j) = "Failed" /\ Len(argv[j]) = 3 /\ argv[j][2] = argv[i][2]

====
